---- MODULE Spec2Model ----
(***************************************************************************)
(* Model of the entry-modification core of slapd's back-bdb:               *)
(*   bdb_modify_internal  (servers/slapd/back-bdb/modify.c:30-258)         *)
(*   bdb_modify           (servers/slapd/back-bdb/modify.c:261-610)        *)
(*   add_lastmods         (servers/slapd/modify.c:195-266)                 *)
(* One modify operation on one target entry is followed statement by       *)
(* statement; the collaborators that are not part of these files (the      *)
(* value routines of mods.c, the schema check, the ACL check, the index    *)
(* and entry stores, the transaction primitives and the entry cache) are   *)
(* modelled by their contracts.                                            *)
(***************************************************************************)
EXTENDS Integers, Sequences, FiniteSets, TLC

(***************************************************************************)
(* Bounds of the model.                                                    *)
(***************************************************************************)
\* longest modification list handed to bdb_modify
MaxMods == 2
\* number of abnormal collaborator results (store errors, lock conflicts,
\* denials, schema violations) in one run; it also bounds num_retries
MaxFaults == 2
\* longest client modification list handed to add_lastmods
MaxLm == 3

(***************************************************************************)
(* Attribute descriptors, values, result codes.                            *)
(***************************************************************************)
OC == "objectClass"
SOC == "structuralObjectClass"
DESCR == "description"
UIDN == "uidNumber"

\* Values are small integers.  GLUE stands for the value "glue" of scbva[0];
\* as an objectClass value REFERRAL_OC stands for "referral", and any other
\* number for an ordinary class or string.
GLUE == 0
REFERRAL_OC == 2

\* the syntax check of the value routines: negative numbers stand for
\* values their attribute's syntax rejects
SyntaxOk(vs) == \A i \in 1..Len(vs) : vs[i] >= 0

SUCCESS == "LDAP_SUCCESS"
DEADLOCK == "DB_LOCK_DEADLOCK"
NOTGRANTED == "DB_LOCK_NOTGRANTED"
NOTFOUND == "DB_NOTFOUND"
DBERR == "DB_RUNRECOVERY"
LockErrs == {DEADLOCK, NOTGRANTED}

IXDEL == "SLAP_ATTR_IXDEL"
IXADD == "SLAP_ATTR_IXADD"

\* is_at_operational: of the attributes of the model only
\* structuralObjectClass has operational usage
IsOperational(desc) == desc = SOC

\* bdb_index_is_indexed: the backend's index configuration
IsIndexed(desc) == desc \in {OC, DESCR}

\* attributes of integer syntax (modify_increment_values)
IsInteger(desc) == desc = UIDN

(***************************************************************************)
(* Sequence helpers.                                                       *)
(***************************************************************************)
Range(s) == {s[i] : i \in 1..Len(s)}

\* index of the first attribute with descriptor desc, 0 when absent
AttrFind(attrs, desc) ==
    IF \E i \in 1..Len(attrs) : attrs[i].a_desc = desc
    THEN CHOOSE i \in 1..Len(attrs) :
            /\ attrs[i].a_desc = desc
            /\ \A j \in 1..(i-1) : attrs[j].a_desc # desc
    ELSE 0

Attr(desc, vals) == [a_desc |-> desc, a_nvals |-> vals, a_flags |-> {}]

\* attrs_dup: a deep copy; the copies start without index flags
AttrsDup(attrs) == [i \in 1..Len(attrs) |-> Attr(attrs[i].a_desc, attrs[i].a_nvals)]

\* what an observer of the entry sees: descriptors and values, in order
Values(attrs) == [i \in 1..Len(attrs) |-> <<attrs[i].a_desc, attrs[i].a_nvals>>]

RemoveAttr(attrs, desc) == SelectSeq(attrs, LAMBDA a : a.a_desc # desc)

SetFlag(attrs, desc, flag) ==
    LET i == AttrFind(attrs, desc)
    IN  IF i = 0 THEN attrs
        ELSE [attrs EXCEPT ![i].a_flags = @ \cup {flag}]

ClearFlag(attrs, i, flag) == [attrs EXCEPT ![i].a_flags = @ \ {flag}]

\* values of vs that are not in the sequence have, keeping the order
NotIn(vs, have) == SelectSeq(vs, LAMBDA v : v \notin Range(have))

(***************************************************************************)
(* The value routines of the applier (contract of section 4.1).            *)
(* Each returns [err, attrs].                                              *)
(***************************************************************************)
NoDup(vs) == \A i, j \in 1..Len(vs) : i # j => vs[i] # vs[j]

modify_add_values(attrs, mod, permissive) ==
    LET i == AttrFind(attrs, mod.sm_desc)
        have == IF i = 0 THEN <<>> ELSE attrs[i].a_nvals
        fresh == NotIn(mod.sm_values, have)
    IN  IF ~SyntaxOk(mod.sm_values)
        THEN [err |-> "LDAP_INVALID_SYNTAX", attrs |-> attrs]
        ELSE IF (Len(fresh) # Len(mod.sm_values) \/ ~NoDup(mod.sm_values)) /\ ~permissive
        THEN [err |-> "LDAP_TYPE_OR_VALUE_EXISTS", attrs |-> attrs]
        ELSE IF Len(fresh) = 0
        THEN [err |-> SUCCESS, attrs |-> attrs]
        ELSE IF i = 0
        THEN [err |-> SUCCESS, attrs |-> Append(attrs, Attr(mod.sm_desc, fresh))]
        ELSE [err |-> SUCCESS, attrs |-> [attrs EXCEPT ![i].a_nvals = @ \o fresh]]

modify_delete_values(attrs, mod, permissive) ==
    LET i == AttrFind(attrs, mod.sm_desc)
        have == IF i = 0 THEN <<>> ELSE attrs[i].a_nvals
        left == NotIn(have, mod.sm_values)
        missing == NotIn(mod.sm_values, have)
    IN  IF i = 0
        THEN [err |-> IF permissive THEN SUCCESS ELSE "LDAP_NO_SUCH_ATTRIBUTE",
              attrs |-> attrs]
        ELSE IF Len(mod.sm_values) = 0
        THEN [err |-> SUCCESS, attrs |-> RemoveAttr(attrs, mod.sm_desc)]
        ELSE IF Len(missing) # 0 /\ ~permissive
        THEN [err |-> "LDAP_NO_SUCH_ATTRIBUTE", attrs |-> attrs]
        ELSE IF Len(left) = 0
        THEN [err |-> SUCCESS, attrs |-> RemoveAttr(attrs, mod.sm_desc)]
        ELSE [err |-> SUCCESS, attrs |-> [attrs EXCEPT ![i].a_nvals = left]]

modify_replace_values(attrs, mod, permissive) ==
    IF ~SyntaxOk(mod.sm_values)
    THEN [err |-> "LDAP_INVALID_SYNTAX", attrs |-> attrs]
    ELSE IF Len(mod.sm_values) = 0
    THEN [err |-> SUCCESS, attrs |-> RemoveAttr(attrs, mod.sm_desc)]
    ELSE [err |-> SUCCESS,
          attrs |-> Append(RemoveAttr(attrs, mod.sm_desc),
                           Attr(mod.sm_desc, mod.sm_values))]

modify_increment_values(attrs, mod, permissive) ==
    LET i == AttrFind(attrs, mod.sm_desc)
    IN  IF i = 0 \/ ~IsInteger(mod.sm_desc) \/ Len(mod.sm_values) # 1
        THEN [err |-> "LDAP_CONSTRAINT_VIOLATION", attrs |-> attrs]
        ELSE [err |-> SUCCESS,
              attrs |-> [attrs EXCEPT ![i].a_nvals =
                            [k \in 1..Len(@) |-> @[k] + mod.sm_values[1]]]]

(***************************************************************************)
(* Requests and entries the runs start from.                               *)
(***************************************************************************)
Mod(op, desc, vals) == [sm_op |-> op, sm_desc |-> desc, sm_values |-> vals]

\* One modification per case of the applier's switch and of the value
\* routines.  structuralObjectClass is only ever set with a value (the scan
\* of lines 57-74 reads sm_values[0]).
ModCatalog ==
    { Mod("LDAP_MOD_ADD", DESCR, <<2>>),
      Mod("LDAP_MOD_DELETE", DESCR, <<1>>),
      Mod("LDAP_MOD_REPLACE", SOC, <<1>>),
      Mod("LDAP_MOD_REPLACE", SOC, <<GLUE>>),
      Mod("LDAP_MOD_REPLACE", OC, <<1>>),
      Mod("LDAP_MOD_INCREMENT", UIDN, <<1>>),
      Mod("SLAP_MOD_SOFTADD", DESCR, <<1>>),
      Mod("LDAP_MOD_REPLACE", DESCR, <<-1>>),
      Mod("LDAP_MOD_BAD", DESCR, <<1>>) }

ModLists(n) == UNION {[1..k -> ModCatalog] : k \in 1..n}

\* the lists the coordinator's flags are combined with
CoordLists ==
    { <<Mod("LDAP_MOD_ADD", DESCR, <<2>>)>>,
      <<Mod("LDAP_MOD_REPLACE", OC, <<1>>), Mod("LDAP_MOD_ADD", DESCR, <<2>>)>>,
      <<Mod("LDAP_MOD_REPLACE", SOC, <<1>>), Mod("LDAP_MOD_REPLACE", OC, <<1>>)>> }

NormalEntry ==
    <<Attr(OC, <<1>>), Attr(SOC, <<1>>), Attr(DESCR, <<1>>), Attr(UIDN, <<5>>)>>
GlueEntry == <<Attr(OC, <<GLUE>>), Attr(SOC, <<GLUE>>), Attr(DESCR, <<1>>)>>
ReferralEntry == <<Attr(OC, <<REFERRAL_OC>>), Attr(SOC, <<1>>)>>

Request(l, noop, perm, dsait, pre, post, asrt, empty) ==
    [mods |-> l, o_noop |-> noop, permissive |-> perm, manageDSAit |-> dsait,
     o_preread |-> pre, o_postread |-> post, assert |-> asrt, emptyDN |-> empty]

\* a scenario: the stored target entry (<<>> when the DN names no entry)
\* and the request
ApplierScenarios ==
    { <<ent, Request(l, n, p, TRUE, FALSE, FALSE, "none", FALSE)>> :
        ent \in {NormalEntry, GlueEntry}, l \in ModLists(MaxMods),
        n \in BOOLEAN, p \in BOOLEAN }

CoordScenarios ==
    { <<ent, Request(l, n, FALSE, d, r, r, a, m)>> :
        ent \in {NormalEntry, GlueEntry, ReferralEntry, <<>>}, l \in CoordLists,
        n \in BOOLEAN, d \in BOOLEAN, r \in BOOLEAN,
        a \in {"none", "true", "false"}, m \in BOOLEAN }

Scenarios == ApplierScenarios \cup CoordScenarios

IndexOf(attrs) ==
    UNION { {<<attrs[i].a_desc, v>> : v \in Range(attrs[i].a_nvals)} :
            i \in {j \in 1..Len(attrs) : IsIndexed(attrs[j].a_desc)} }

(***************************************************************************)
(* State.                                                                  *)
(***************************************************************************)
VARIABLES
    pc,         \* position of the operation's thread in bdb_modify
    req,        \* the request (op): modification list and controls
    faults,     \* abnormal collaborator results still available
    obj,        \* the entries: obj.E the cached target, obj.S the synthesized root
    store,      \* committed entry store: the target's record
    index,      \* committed index store: (descriptor, value) keys of the target's id
    txStore,    \* entry store as seen inside the open transaction
    txIndex,    \* index store as seen inside the open transaction
    ltid,       \* outer transaction: "NULL" or "open"
    lt2,        \* nested transaction: "NULL", "open" or "committed"
    e,          \* the local e: "NULL", "E", "A" (an ancestor) or "S"
    fakeroot,
    dummy,      \* the local dummy: where e_attrs points, the copy, e_ocflags
    save_attrs, \* bdb_modify_internal: TRUE once save_attrs holds the pre-image list
    ml,         \* bdb_modify_internal: position in the modification list
    ap,         \* bdb_modify_internal: position of ap in the index loops
    glue_attr_delete,
    boi_err,    \* opinfo.boi_err
    rs_err,     \* rs->sr_err
    num_retries,
    handles,    \* the cache's view of its handles
    ctrls,      \* response controls captured: pre and post images
    log,        \* what the operation did, in order (observation only)
    seen,       \* observations of the run (observation only)
    \* do_modify / add_lastmods (servers/slapd/modify.c)
    lmPc,       \* position in add_lastmods
    mods,       \* the list *mods
    mods0,      \* the list the client sent (observation only)
    m,          \* the link m points at: mods[m] is *m
    o_dn,       \* op->o_dn: "NULL", "" or a DN
    shadow,     \* be->be_update_ndn != NULL
    currenttime,
    currenttime_mutex, \* "free", "lastmods" or "clock"
    buf         \* the formatted time

coordVars == <<pc, req, faults, obj, store, index, txStore, txIndex, ltid, lt2, e,
               fakeroot, dummy, save_attrs, ml, ap, glue_attr_delete, boi_err,
               rs_err, num_retries, handles, ctrls, log, seen>>

lmVars == <<lmPc, mods, mods0, m, o_dn, shadow, currenttime, currenttime_mutex, buf>>

vars == <<coordVars, lmVars>>

NullDummy == [e_attrs |-> "NULL", copy |-> <<>>, e_ocflags |-> 0]

NoObj == [st |-> "none", e_attrs |-> <<>>, e_ocflags |-> 0, attrsLive |-> FALSE]

LiveObj(attrs, ocf) ==
    [st |-> "live", e_attrs |-> attrs, e_ocflags |-> ocf, attrsLive |-> TRUE]

NoCtrl == [set |-> FALSE, img |-> <<>>]

Ctrl(attrs) == [set |-> TRUE, img |-> Values(attrs)]

NoSeen ==
    [pre0 |-> <<>>,      \* values of the pre-image when it was resolved
     ocf0 |-> 0,         \* its e_ocflags then
     stepErr |-> SUCCESS,\* result of the applier step that failed
     lockOnly |-> TRUE,  \* every abnormal result so far was a lock conflict
     replies |-> 0,      \* calls of send_ldap_result
     sent |-> 0,         \* replies that went out to the client
     abandoned |-> FALSE,\* op->o_abandon was found set
     retryOn |-> "none", \* the result that last sent the operation to retry
     preread |-> FALSE,  \* the pre-read control was built in this attempt
     opattrs |-> 0,      \* calls of slap_mods_opattrs
     retrySteps |-> <<>>,\* what the last pass through the retry block did
     begun |-> 0,        \* outer transactions begun (TXN_BEGIN returned 0)
     ends |-> 0,         \* calls of TXN_ABORT / TXN_COMMIT on an outer transaction
     o_private |-> "NULL",\* op->o_private: "NULL" or "opinfo"
     sr_ctrls |-> FALSE, \* rs->sr_ctrls points at ctrls
     sr_ref |-> "none",  \* rs->sr_ref of the referral sent: "entry", "default", "NULL"
     cacheMods |-> 0,    \* calls of bdb_cache_modify
     synthFrees |-> 0,   \* calls of entry_free on the synthesized entry
     synthMade |-> 0,
     committed |-> FALSE,\* the outer transaction was committed
     store0 |-> <<>>,    \* the stores when the operation began
     index0 |-> {},
     uaf |-> FALSE]      \* a freed entry or attribute list was used

CoordInit ==
    /\ \E sc \in Scenarios :
        /\ req = sc[2]
        /\ obj = [E |-> IF sc[1] = <<>> THEN NoObj ELSE LiveObj(sc[1], 1),
                  S |-> NoObj]
        /\ store = [present |-> sc[1] # <<>>, attrs |-> Values(sc[1])]
        /\ index = IndexOf(sc[1])
    /\ pc = "opattrs"
    /\ faults = MaxFaults
    /\ txStore = store
    /\ txIndex = index
    /\ ltid = "NULL"
    /\ lt2 = "NULL"
    /\ e = "NULL"
    /\ fakeroot = FALSE
    /\ dummy = NullDummy
    /\ save_attrs = FALSE
    /\ ml = 1
    /\ ap = 1
    /\ glue_attr_delete = FALSE
    /\ boi_err = "0"
    /\ rs_err = SUCCESS
    /\ num_retries = 0
    /\ handles = [out |-> 0, anc |-> 0, bad |-> 0]
    /\ ctrls = [pre |-> NoCtrl, post |-> NoCtrl]
    /\ log = <<>>
    /\ seen = [NoSeen EXCEPT !.store0 = store, !.index0 = index]

(***************************************************************************)
(* Collaborator results.  A collaborator answers normally, or, while the   *)
(* run's budget of abnormal results lasts, with one of its error results.  *)
(***************************************************************************)
Res(normal, errs) == {normal} \cup (IF faults > 0 THEN errs ELSE {})

Spent(r, normal) == IF r = normal THEN faults ELSE faults - 1

Noted(r, normal) ==
    IF r = normal THEN seen ELSE [seen EXCEPT !.lockOnly = @ /\ r \in LockErrs]

\* send_ldap_result: a result of SLAPD_ABANDON is not sent to the client
Sends(err) == err # "SLAPD_ABANDON"

\* the counters of send_ldap_result( op, rs ) after a call with result err
Replied(sn, err) ==
    [sn EXCEPT !.replies = @ + 1, !.sent = IF Sends(err) THEN @ + 1 ELSE @]

\* is_entry_glue / is_entry_referral: read off the objectClass values
HasClass(attrs, c) ==
    \E i \in 1..Len(attrs) : attrs[i].a_desc = OC /\ c \in Range(attrs[i].a_nvals)

\* bdb_unlocked_cache_return_entry_rw as the cache sees it: a handle that is
\* checked out goes back; anything else handed in is counted in bad
CacheReturn(h, who) ==
    IF who = "E" /\ h.out > 0 THEN [h EXCEPT !.out = @ - 1]
    ELSE IF who = "A" /\ h.anc > 0 THEN [h EXCEPT !.anc = @ - 1]
    ELSE [h EXCEPT !.bad = @ + 1]

\* attrs_free( dummy.e_attrs ): frees the copy, or, when dummy.e_attrs still
\* points at the entry's own list, that list
FreeDummyAttrs(o, d, who) ==
    IF d.e_attrs = "pre" /\ who \in {"E", "S"}
    THEN [o EXCEPT ![who].attrsLive = FALSE]
    ELSE o

\* the attribute list dummy.e_attrs points at
DummyAttrs == IF dummy.e_attrs = "copy" THEN dummy.copy ELSE obj[e].e_attrs

applierVars == <<save_attrs, ml, ap, glue_attr_delete>>
storeVars == <<store, index, txStore, txIndex>>

\* lines 292-293: the operational attributes are added to the list before
\* the retry label, unless the database is a shadow
ModsOpattrs ==
    /\ pc = "opattrs"
    /\ seen' = [seen EXCEPT !.opattrs = @ + (IF shadow THEN 0 ELSE 1)]
    /\ pc' = "begin"
    /\ UNCHANGED <<req, faults, obj, storeVars, ltid, lt2, e, fakeroot, dummy,
                   applierVars, boi_err, rs_err, num_retries, handles, ctrls, log>>
    /\ UNCHANGED lmVars

(***************************************************************************)
(* bdb_modify, lines 325-471.                                              *)
(***************************************************************************)
\* lines 325-345: begin the outer transaction
TxnBegin ==
    /\ pc = "begin"
    /\ \E r \in Res("ok", {"fail"}) :
        /\ faults' = Spent(r, "ok")
        /\ seen' = IF r = "ok"
                   THEN [seen EXCEPT !.preread = FALSE, !.begun = @ + 1,
                                     !.o_private = "opinfo"]
                   ELSE [Noted(r, "ok") EXCEPT !.preread = FALSE]
        /\ IF r = "ok"
           THEN /\ ltid' = "open"
                /\ txStore' = store
                /\ txIndex' = index
                /\ boi_err' = "0"
                /\ rs_err' = SUCCESS
                /\ pc' = "resolve"
           ELSE /\ rs_err' = "LDAP_OTHER"
                /\ pc' = "return_results"
                /\ UNCHANGED <<ltid, txStore, txIndex, boi_err>>
    /\ log' = <<>>
    /\ UNCHANGED <<req, obj, store, index, lt2, e, fakeroot, dummy, applierVars,
                   num_retries, handles, ctrls>>
    /\ UNCHANGED lmVars

SynthEntry == <<Attr(OC, <<GLUE>>), Attr(SOC, <<GLUE>>)>>

\* lines 347-382: bdb_dn2entry and the switch on its result
Resolve ==
    /\ pc = "resolve"
    /\ \E r \in Res(IF obj.E.st = "live" THEN "found" ELSE NOTFOUND,
                    LockErrs \cup {"LDAP_BUSY", DBERR}) :
        /\ faults' = Spent(r, IF obj.E.st = "live" THEN "found" ELSE NOTFOUND)
        /\ CASE r = "found" ->
                /\ e' = IF fakeroot THEN e ELSE "E"
                /\ handles' = [handles EXCEPT !.out = @ + 1]
                /\ rs_err' = SUCCESS
                /\ seen' = [seen EXCEPT !.pre0 = Values(obj.E.e_attrs),
                                        !.ocf0 = obj.E.e_ocflags]
                /\ pc' = "check"
                /\ UNCHANGED <<obj, fakeroot>>
             [] r = NOTFOUND /\ req.emptyDN ->
                /\ obj' = [obj EXCEPT !.S = LiveObj(SynthEntry, 0)]
                /\ e' = "S"
                /\ fakeroot' = TRUE
                /\ rs_err' = SUCCESS
                /\ seen' = [seen EXCEPT !.pre0 = Values(SynthEntry), !.ocf0 = 0,
                                        !.synthMade = @ + 1]
                /\ pc' = "check"
                /\ UNCHANGED handles
             [] r = NOTFOUND /\ ~req.emptyDN ->
                /\ \E a \in {"A", "NULL"} :
                    /\ e' = IF fakeroot THEN e ELSE a
                    /\ handles' = IF a = "A" THEN [handles EXCEPT !.anc = @ + 1]
                                  ELSE handles
                /\ rs_err' = NOTFOUND
                /\ pc' = "check"
                /\ UNCHANGED <<obj, fakeroot, seen>>
             [] r \in LockErrs ->
                /\ rs_err' = r
                /\ seen' = [Noted(r, "found") EXCEPT !.retryOn = r]
                /\ pc' = "retry"
                /\ UNCHANGED <<obj, e, fakeroot, handles>>
             [] r = "LDAP_BUSY" ->
                /\ rs_err' = r
                /\ seen' = Noted(r, "found")
                /\ pc' = "return_results"
                /\ UNCHANGED <<obj, e, fakeroot, handles>>
             [] r = DBERR ->
                /\ rs_err' = "LDAP_OTHER"
                /\ seen' = Noted(r, "found")
                /\ pc' = "return_results"
                /\ UNCHANGED <<obj, e, fakeroot, handles>>
    /\ UNCHANGED <<req, storeVars, ltid, lt2, dummy, applierVars, boi_err,
                   num_retries, ctrls, log>>
    /\ UNCHANGED lmVars

\* a coordinator that does not look at the assertion control
ShortCircuit_NoAssert(attrs, manageDSAit, asrt) ==
    IF ~manageDSAit /\ HasClass(attrs, REFERRAL_OC) THEN "LDAP_REFERRAL"
    ELSE SUCCESS

\* lines 419-442: a referral entry without manageDSAit, else an assertion
\* that is not true of the entry, ends the operation before the pre-read
ShortCircuit(attrs, manageDSAit, asrt) ==
    IF ~manageDSAit /\ HasClass(attrs, REFERRAL_OC) THEN "LDAP_REFERRAL"
    ELSE IF asrt = "false" THEN "LDAP_ASSERTION_FAILED"
    ELSE SUCCESS

\* lines 384-442: glue / referral / assertion short-circuits
Check ==
    /\ pc = "check"
    /\ IF rs_err = NOTFOUND
          \/ (~req.manageDSAit /\ e \in {"E", "S"} /\ HasClass(obj[e].e_attrs, GLUE))
       THEN /\ handles' = IF e # "NULL" THEN CacheReturn(handles, e) ELSE handles
            /\ e' = "NULL"
            /\ rs_err' = "LDAP_REFERRAL"
            /\ seen' = [Replied(seen, "LDAP_REFERRAL") EXCEPT !.sr_ref =
                            IF e = "NULL" THEN "default"
                            ELSE IF e = "A" THEN "NULL"
                            ELSE IF HasClass(obj[e].e_attrs, REFERRAL_OC) THEN "entry"
                            ELSE "NULL"]
            /\ pc' = "done"
       ELSE IF e = "NULL"
       THEN \* is_entry_referral / dummy = *e on a null e
            /\ pc' = "crash"
            /\ UNCHANGED <<handles, e, rs_err, seen>>
       ELSE IF ShortCircuit(obj[e].e_attrs, req.manageDSAit, req.assert) = "LDAP_REFERRAL"
       THEN /\ rs_err' = "LDAP_REFERRAL"
            /\ seen' = [Replied(seen, "LDAP_REFERRAL") EXCEPT !.sr_ref = "entry"]
            /\ pc' = "done"
            /\ UNCHANGED <<handles, e>>
       ELSE IF ShortCircuit(obj[e].e_attrs, req.manageDSAit, req.assert)
                    = "LDAP_ASSERTION_FAILED"
       THEN /\ rs_err' = "LDAP_ASSERTION_FAILED"
            /\ pc' = "return_results"
            /\ UNCHANGED <<handles, e, seen>>
       ELSE /\ pc' = "preread"
            /\ UNCHANGED <<handles, e, rs_err, seen>>
    /\ UNCHANGED <<req, faults, obj, storeVars, ltid, lt2, fakeroot, dummy,
                   applierVars, boi_err, num_retries, ctrls, log>>
    /\ UNCHANGED lmVars

\* a coordinator that calls the applier right after the pre-read, without a
\* nested transaction
AfterPreRead_NoNested(r) == IF r = "ok" THEN "acl" ELSE "return_results"

\* lines 450-460: after the pre-read the nested transaction is begun; a
\* failed slap_read_controls goes to return_results
AfterPreRead(r) == IF r = "ok" THEN "begin2" ELSE "return_results"

\* lines 444-457: pre-read capture
PreRead ==
    /\ pc = "preread"
    /\ IF req.o_preread
       THEN \E r \in Res("ok", {"fail"}) :
            /\ faults' = Spent(r, "ok")
            /\ seen' = [Noted(r, "ok") EXCEPT !.preread = (r = "ok")]
            /\ pc' = AfterPreRead(r)
            /\ IF r = "ok"
               THEN /\ ctrls' = [ctrls EXCEPT !.pre = Ctrl(obj[e].e_attrs)]
                    /\ UNCHANGED rs_err
               ELSE /\ ctrls' = [ctrls EXCEPT !.pre = [set |-> TRUE, img |-> <<>>]]
                    /\ rs_err' = "LDAP_OTHER"
       ELSE /\ pc' = AfterPreRead("ok")
            /\ UNCHANGED <<faults, seen, ctrls, rs_err>>
    /\ UNCHANGED <<req, obj, storeVars, ltid, lt2, e, fakeroot, dummy, applierVars,
                   boi_err, num_retries, handles, log>>
    /\ UNCHANGED lmVars

\* lines 459-471: begin the nested transaction; dummy = *e
TxnBegin2 ==
    /\ pc = "begin2"
    /\ \E r \in Res("ok", {"fail"}) :
        /\ faults' = Spent(r, "ok")
        /\ seen' = Noted(r, "ok")
        /\ IF r = "ok"
           THEN /\ lt2' = "open"
                /\ rs_err' = SUCCESS
                /\ dummy' = [e_attrs |-> "pre", copy |-> <<>>,
                             e_ocflags |-> obj[e].e_ocflags]
                /\ pc' = "acl"
           ELSE /\ rs_err' = "LDAP_OTHER"
                /\ pc' = "return_results"
                /\ UNCHANGED <<lt2, dummy>>
    /\ UNCHANGED <<req, obj, storeVars, ltid, e, fakeroot, applierVars, boi_err,
                   num_retries, handles, ctrls, log>>
    /\ UNCHANGED lmVars

(***************************************************************************)
(* bdb_modify_internal, called at line 472 on &dummy.  Inside it e is      *)
(* &dummy, so e->e_attrs is dummy.e_attrs, and save_attrs is the list of   *)
(* the entry bdb_modify resolved (obj[e].e_attrs).                         *)
(***************************************************************************)
\* a return that forgets to put the saved list back
RestoreSaved_Forgotten(d) == d

\* lines 173-174, 202-207, 228-229, 246-247:
\* attrs_free( e->e_attrs ); e->e_attrs = save_attrs
RestoreSaved(d) == [d EXCEPT !.e_attrs = "pre", !.copy = <<>>]

\* lines 204-206: clear the indexing flags of the saved list
ClearAllFlags(attrs) == [i \in 1..Len(attrs) |-> [attrs[i] EXCEPT !.a_flags = {}]]

\* value_match with the equality rule of structuralObjectClass: what it
\* stores in match is not 0 exactly when the two values are equal
value_match(a, b) == IF a = b THEN 1 ELSE 0

\* lines 57-74: is there an ADD or REPLACE of structuralObjectClass for whose
\* first value and "glue" value_match leaves match at 0
GlueScan(modlist) ==
    \E i \in 1..Len(modlist) :
        /\ modlist[i].sm_op \in {"LDAP_MOD_ADD", "LDAP_MOD_REPLACE"}
        /\ modlist[i].sm_desc = SOC
        /\ value_match(modlist[i].sm_values[1], GLUE) = 0

\* lines 76-87: drop every attribute that is not operational
GluePurge(attrs) == SelectSeq(attrs, LAMBDA a : IsOperational(a.a_desc))

\* a switch whose LDAP_MOD_DELETE case always calls modify_delete_values
ApplyOne_DeleteAlways(attrs, mod, permissive, glue) ==
    CASE mod.sm_op = "LDAP_MOD_ADD" -> modify_add_values(attrs, mod, permissive)
      [] mod.sm_op = "LDAP_MOD_DELETE" -> modify_delete_values(attrs, mod, permissive)
      [] mod.sm_op = "LDAP_MOD_REPLACE" -> modify_replace_values(attrs, mod, permissive)
      [] mod.sm_op = "LDAP_MOD_INCREMENT" ->
            modify_increment_values(attrs, mod, permissive)
      [] mod.sm_op = "SLAP_MOD_SOFTADD" ->
            LET r == modify_add_values(attrs, [mod EXCEPT !.sm_op = "LDAP_MOD_ADD"],
                                       permissive)
            IN  [err |-> IF r.err = "LDAP_TYPE_OR_VALUE_EXISTS" THEN SUCCESS ELSE r.err,
                 attrs |-> r.attrs]
      [] OTHER -> [err |-> "LDAP_OTHER", attrs |-> attrs]

\* lines 92-170: the switch on sm_op
ApplyOne(attrs, mod, permissive, glue) ==
    CASE mod.sm_op = "LDAP_MOD_ADD" -> modify_add_values(attrs, mod, permissive)
      [] mod.sm_op = "LDAP_MOD_DELETE" ->
            IF glue THEN [err |-> SUCCESS, attrs |-> attrs]
            ELSE modify_delete_values(attrs, mod, permissive)
      [] mod.sm_op = "LDAP_MOD_REPLACE" -> modify_replace_values(attrs, mod, permissive)
      [] mod.sm_op = "LDAP_MOD_INCREMENT" ->
            modify_increment_values(attrs, mod, permissive)
      [] mod.sm_op = "SLAP_MOD_SOFTADD" ->
            LET r == modify_add_values(attrs, [mod EXCEPT !.sm_op = "LDAP_MOD_ADD"],
                                       permissive)
            IN  [err |-> IF r.err = "LDAP_TYPE_OR_VALUE_EXISTS" THEN SUCCESS ELSE r.err,
                 attrs |-> r.attrs]
      [] OTHER -> [err |-> "LDAP_OTHER", attrs |-> attrs]

\* lines 49-51: acl_check_modlist
AclCheck ==
    /\ pc = "acl"
    /\ \E r \in Res("grant", {"deny"}) :
        /\ faults' = Spent(r, "grant")
        /\ IF r = "grant"
           THEN /\ pc' = "dup"
                /\ UNCHANGED <<rs_err, boi_err, seen>>
           ELSE \* the ACL code may leave a store error in opinfo.boi_err
                /\ \E b \in {"0"} \cup LockErrs :
                    /\ boi_err' = b
                    /\ seen' = [seen EXCEPT !.stepErr = "LDAP_INSUFFICIENT_ACCESS",
                                    !.lockOnly = @ /\ b \in LockErrs]
                /\ rs_err' = "LDAP_INSUFFICIENT_ACCESS"
                /\ pc' = "applied"
    /\ log' = Append(log, "acl")
    /\ UNCHANGED <<req, obj, storeVars, ltid, lt2, e, fakeroot, dummy, applierVars,
                   num_retries, handles, ctrls>>
    /\ UNCHANGED lmVars

\* lines 53-87: save the list, work on a copy, purge it for a glue promotion
DupAttrs ==
    /\ pc = "dup"
    /\ save_attrs' = TRUE
    /\ glue_attr_delete' = GlueScan(req.mods)
    /\ dummy' = [dummy EXCEPT
                    !.e_attrs = "copy",
                    !.copy = IF GlueScan(req.mods)
                             THEN GluePurge(AttrsDup(obj[e].e_attrs))
                             ELSE AttrsDup(obj[e].e_attrs)]
    /\ ml' = 1
    /\ pc' = "mod"
    /\ log' = Append(log, "apply")
    /\ UNCHANGED <<req, faults, obj, storeVars, ltid, lt2, e, fakeroot, ap, boi_err,
                   rs_err, num_retries, handles, ctrls, seen>>
    /\ UNCHANGED lmVars

\* lines 186-195: mark the saved and the working attribute for the index
MarkSaved(attrs, mod, noop) ==
    IF IsIndexed(mod.sm_desc) /\ ~noop THEN SetFlag(attrs, mod.sm_desc, IXDEL)
    ELSE attrs

MarkCopy(attrs, mod, noop) ==
    IF IsIndexed(mod.sm_desc) /\ ~noop THEN SetFlag(attrs, mod.sm_desc, IXADD)
    ELSE attrs

\* a loop that hands the entry to the schema check after each modification
AfterMod_CheckEach(k, n) == "schema"

\* lines 89 and 196-199: after modification k of n the loop goes on, and
\* after the last one the entry goes to the schema check
AfterMod(k, n) == IF k = n THEN "schema" ELSE "mod"

\* lines 89-196: one iteration of the loop over the modification list
ApplyMod ==
    /\ pc = "mod"
    /\ ml <= Len(req.mods)
    /\ LET mod == req.mods[ml]
           r == ApplyOne(dummy.copy, mod, req.permissive, glue_attr_delete)
       IN  IF r.err # SUCCESS
           THEN /\ dummy' = RestoreSaved(dummy)
                /\ rs_err' = r.err
                /\ seen' = [seen EXCEPT !.stepErr = r.err]
                /\ pc' = "applied"
                /\ UNCHANGED <<obj, ml>>
           ELSE /\ obj' = [obj EXCEPT ![e].e_attrs = MarkSaved(@, mod, req.o_noop)]
                /\ dummy' = [dummy EXCEPT
                                !.copy = MarkCopy(r.attrs, mod, req.o_noop),
                                !.e_ocflags = IF mod.sm_desc = OC \/ glue_attr_delete
                                              THEN 0 ELSE @]
                /\ ml' = ml + 1
                /\ pc' = AfterMod(ml, Len(req.mods))
                /\ UNCHANGED <<rs_err, seen>>
    /\ UNCHANGED <<req, faults, storeVars, ltid, lt2, e, fakeroot, save_attrs, ap,
                   glue_attr_delete, boi_err, num_retries, handles, ctrls, log>>
    /\ UNCHANGED lmVars

\* entry_schema_check: an entry without objectClass never passes; whether
\* any other entry passes is the schema's business
HasObjectClass(attrs) == AttrFind(attrs, OC) # 0

SchemaResults(attrs) ==
    IF HasObjectClass(attrs) THEN Res(SUCCESS, {"LDAP_OBJECT_CLASS_VIOLATION"})
    ELSE {"LDAP_OBJECT_CLASS_VIOLATION"}

\* lines 198-217: entry_schema_check; a failure or a no-op reverts to the
\* saved list
SchemaCheck ==
    /\ pc = "schema"
    /\ \E rc \in SchemaResults(dummy.copy) :
        /\ faults' = IF HasObjectClass(dummy.copy) THEN Spent(rc, SUCCESS) ELSE faults
        /\ IF rc # SUCCESS \/ req.o_noop
           THEN /\ dummy' = RestoreSaved(dummy)
                /\ obj' = [obj EXCEPT ![e].e_attrs = ClearAllFlags(@)]
                /\ rs_err' = rc
                /\ seen' = [Noted(rc, SUCCESS) EXCEPT !.stepErr = rc]
                /\ pc' = "applied"
                /\ UNCHANGED ap
           ELSE /\ ap' = 1
                /\ pc' = "ixdel"
                /\ UNCHANGED <<dummy, obj, rs_err, seen>>
    /\ log' = Append(log, "schema")
    /\ UNCHANGED <<req, storeVars, ltid, lt2, e, fakeroot, save_attrs, ml,
                   glue_attr_delete, boi_err, num_retries, handles, ctrls>>
    /\ UNCHANGED lmVars

IndexKeys(a) == {<<a.a_desc, v>> : v \in Range(a.a_nvals)}

\* append a step to the log once per run of equal steps
Logged(l, step) == IF Len(l) > 0 /\ l[Len(l)] = step THEN l ELSE Append(l, step)

\* lines 221-237: delete the old index entries, one saved attribute per step
IndexDelete ==
    /\ pc = "ixdel"
    /\ LET pre == obj[e].e_attrs
       IN  IF ap > Len(pre)
           THEN /\ ap' = 1
                /\ pc' = "ixadd"
                /\ UNCHANGED <<faults, obj, dummy, txIndex, rs_err, seen, log>>
           ELSE IF IXDEL \in pre[ap].a_flags
           THEN \E rc \in Res(SUCCESS, LockErrs \cup {DBERR}) :
                /\ faults' = Spent(rc, SUCCESS)
                /\ log' = Logged(log, "ixdel")
                /\ IF rc = SUCCESS
                   THEN /\ txIndex' = txIndex \ IndexKeys(pre[ap])
                        /\ obj' = [obj EXCEPT ![e].e_attrs = ClearFlag(@, ap, IXDEL)]
                        /\ ap' = ap + 1
                        /\ UNCHANGED <<dummy, rs_err, seen, pc>>
                   ELSE /\ dummy' = RestoreSaved(dummy)
                        /\ rs_err' = rc
                        /\ seen' = [Noted(rc, SUCCESS) EXCEPT !.stepErr = rc]
                        /\ pc' = "applied"
                        /\ UNCHANGED <<txIndex, obj, ap>>
           ELSE /\ ap' = ap + 1
                /\ UNCHANGED <<faults, obj, dummy, txIndex, rs_err, seen, log, pc>>
    /\ UNCHANGED <<req, store, index, txStore, ltid, lt2, e, fakeroot, save_attrs, ml,
                   glue_attr_delete, boi_err, num_retries, handles, ctrls>>
    /\ UNCHANGED lmVars

\* lines 239-257: add the new index entries, one working attribute per step
IndexAdd ==
    /\ pc = "ixadd"
    /\ LET post == dummy.copy
       IN  IF ap > Len(post)
           THEN /\ rs_err' = SUCCESS
                /\ pc' = "applied"
                /\ UNCHANGED <<faults, dummy, txIndex, seen, log, ap>>
           ELSE IF IXADD \in post[ap].a_flags
           THEN \E rc \in Res(SUCCESS, LockErrs \cup {DBERR}) :
                /\ faults' = Spent(rc, SUCCESS)
                /\ log' = Logged(log, "ixadd")
                /\ IF rc = SUCCESS
                   THEN /\ txIndex' = txIndex \cup IndexKeys(post[ap])
                        /\ dummy' = [dummy EXCEPT !.copy = ClearFlag(@, ap, IXADD)]
                        /\ ap' = ap + 1
                        /\ UNCHANGED <<rs_err, seen, pc>>
                   ELSE /\ dummy' = RestoreSaved(dummy)
                        /\ rs_err' = rc
                        /\ seen' = [Noted(rc, SUCCESS) EXCEPT !.stepErr = rc]
                        /\ pc' = "applied"
                        /\ UNCHANGED <<txIndex, ap>>
           ELSE /\ ap' = ap + 1
                /\ UNCHANGED <<faults, dummy, txIndex, rs_err, seen, log, pc>>
    /\ UNCHANGED <<req, obj, store, index, txStore, ltid, lt2, e, fakeroot, save_attrs,
                   ml, glue_attr_delete, boi_err, num_retries, handles, ctrls>>
    /\ UNCHANGED lmVars

(***************************************************************************)
(* bdb_modify, lines 475-610 and the retry block of lines 296-323.         *)
(***************************************************************************)
\* the transaction's view is dropped when the outer transaction ends
\* without a commit
DropTxn ==
    /\ txStore' = store
    /\ txIndex' = index
    /\ UNCHANGED <<store, index>>

\* lines 479-481: a code the access-control collaborator left in
\* opinfo.boi_err replaces LDAP_INSUFFICIENT_ACCESS
OverrideErr(err, boi) ==
    IF err = "LDAP_INSUFFICIENT_ACCESS" /\ boi # "0" THEN boi ELSE err

\* a coordinator that starts a new attempt after any failure of the applier
AfterFailure_RetryAll(err) == "retry"

\* lines 484-489: the switch on rs->sr_err after a failed applier
AfterFailure(err) == IF err \in LockErrs THEN "retry" ELSE "return_results"

\* a coordinator that goes from a successful applier straight to the commit
\* of the nested transaction, leaving out bdb_id2entry_update
Applied_NoEntryUpdate ==
    /\ pc = "applied"
    /\ IF rs_err # SUCCESS
       THEN LET err == OverrideErr(rs_err, boi_err)
            IN  /\ rs_err' = err
                /\ dummy' = IF dummy.e_attrs = "pre"
                            THEN [dummy EXCEPT !.e_attrs = "NULL"] ELSE dummy
                /\ pc' = AfterFailure(err)
                /\ seen' = IF AfterFailure(err) = "retry"
                           THEN [seen EXCEPT !.retryOn = err] ELSE seen
       ELSE /\ pc' = "commit2"
            /\ UNCHANGED <<rs_err, dummy, seen>>
    /\ UNCHANGED <<req, faults, obj, storeVars, ltid, lt2, e, fakeroot, applierVars,
                   boi_err, num_retries, handles, ctrls, log>>
    /\ UNCHANGED lmVars

\* lines 475-490: the result of bdb_modify_internal
Applied ==
    /\ pc = "applied"
    /\ IF rs_err # SUCCESS
       THEN LET err == OverrideErr(rs_err, boi_err)
            IN  /\ rs_err' = err
                /\ dummy' = IF dummy.e_attrs = "pre"
                            THEN [dummy EXCEPT !.e_attrs = "NULL"] ELSE dummy
                /\ pc' = AfterFailure(err)
                /\ seen' = IF AfterFailure(err) = "retry"
                           THEN [seen EXCEPT !.retryOn = err] ELSE seen
       ELSE /\ pc' = "update"
            /\ UNCHANGED <<rs_err, dummy, seen>>
    /\ UNCHANGED <<req, faults, obj, storeVars, ltid, lt2, e, fakeroot, applierVars,
                   boi_err, num_retries, handles, ctrls, log>>
    /\ UNCHANGED lmVars

\* lines 492-505: bdb_id2entry_update writes dummy under the nested transaction
EntryUpdate ==
    /\ pc = "update"
    /\ \E r \in Res("ok", LockErrs \cup {DBERR}) :
        /\ faults' = Spent(r, "ok")
        /\ seen' = IF r \in LockErrs THEN [Noted(r, "ok") EXCEPT !.retryOn = r]
                   ELSE Noted(r, "ok")
        /\ IF r = "ok"
           THEN /\ txStore' = [present |-> TRUE, attrs |-> Values(DummyAttrs)]
                /\ pc' = "commit2"
                /\ UNCHANGED rs_err
           ELSE /\ rs_err' = r
                /\ pc' = IF r \in LockErrs THEN "retry" ELSE "return_results"
                /\ UNCHANGED txStore
    /\ log' = Append(log, "update")
    /\ UNCHANGED <<req, obj, store, index, txIndex, ltid, lt2, e, fakeroot, dummy,
                   applierVars, boi_err, num_retries, handles, ctrls>>
    /\ UNCHANGED lmVars

\* lines 507-511: commit of the nested transaction; any failure is final
TxnCommit2 ==
    /\ pc = "commit2"
    /\ \E r \in Res("ok", LockErrs \cup {DBERR}) :
        /\ faults' = Spent(r, "ok")
        /\ seen' = Noted(r, "ok")
        /\ IF r = "ok"
           THEN /\ lt2' = "committed"
                /\ pc' = "postread"
                /\ UNCHANGED rs_err
           ELSE /\ lt2' = "NULL"
                /\ rs_err' = "LDAP_OTHER"
                /\ pc' = "return_results"
    /\ log' = Append(log, "commit2")
    /\ UNCHANGED <<req, obj, storeVars, ltid, e, fakeroot, dummy, applierVars,
                   boi_err, num_retries, handles, ctrls>>
    /\ UNCHANGED lmVars

\* lines 513-526: post-read capture from dummy
PostRead ==
    /\ pc = "postread"
    /\ IF req.o_postread
       THEN \E r \in Res("ok", {"fail"}) :
            /\ faults' = Spent(r, "ok")
            /\ seen' = Noted(r, "ok")
            /\ log' = Append(log, "postread")
            /\ IF r = "ok"
               THEN /\ ctrls' = [ctrls EXCEPT !.post = Ctrl(DummyAttrs)]
                    /\ pc' = "finish"
                    /\ UNCHANGED rs_err
               ELSE /\ ctrls' = [ctrls EXCEPT !.post = [set |-> TRUE, img |-> <<>>]]
                    /\ rs_err' = "LDAP_OTHER"
                    /\ pc' = "return_results"
       ELSE /\ pc' = "finish"
            /\ UNCHANGED <<faults, seen, ctrls, rs_err, log>>
    /\ UNCHANGED <<req, obj, storeVars, ltid, lt2, e, fakeroot, dummy, applierVars,
                   boi_err, num_retries, handles>>
    /\ UNCHANGED lmVars

\* lines 528-535 with 554-566: a no-op aborts the outer transaction
NoopAbort ==
    /\ pc = "finish"
    /\ req.o_noop
    /\ \E r \in Res("ok", {"fail"}) :
        /\ faults' = Spent(r, "ok")
        /\ seen' = [Noted(r, "ok") EXCEPT !.ends = @ + 1, !.o_private = "NULL"]
        /\ rs_err' = IF r = "ok" THEN "LDAP_X_NO_OPERATION" ELSE "LDAP_OTHER"
    /\ ltid' = "NULL"
    /\ lt2' = "NULL"
    /\ DropTxn
    /\ pc' = "return_results"
    /\ UNCHANGED <<req, obj, e, fakeroot, dummy, applierVars, boi_err, num_retries,
                   handles, ctrls, log>>
    /\ UNCHANGED lmVars

\* lines 536-550: the entry takes over the flags and the new attribute list
CacheUpdate ==
    /\ pc = "finish"
    /\ ~req.o_noop
    /\ IF fakeroot
       THEN \* e->e_private = NULL; entry_free( e ); e keeps pointing at it
            /\ obj' = [obj EXCEPT ![e].e_ocflags = dummy.e_ocflags,
                                  ![e].st = "freed", ![e].attrsLive = FALSE]
            /\ seen' = [seen EXCEPT !.synthFrees = @ + 1]
            /\ dummy' = [dummy EXCEPT !.e_attrs = "NULL"]
            /\ pc' = "commit"
            /\ UNCHANGED <<faults, log>>
       ELSE \E rc \in Res("ok", LockErrs) :
            /\ faults' = Spent(rc, "ok")
            /\ log' = Append(log, "cachemod")
            /\ IF rc = "ok"
               THEN /\ obj' = [obj EXCEPT ![e].e_ocflags = dummy.e_ocflags,
                                          ![e].e_attrs = DummyAttrs,
                                          ![e].attrsLive = TRUE]
                    /\ seen' = [seen EXCEPT !.cacheMods = @ + 1]
                    /\ dummy' = [dummy EXCEPT !.e_attrs = "NULL"]
                    /\ pc' = "commit"
               ELSE /\ obj' = [obj EXCEPT ![e].e_ocflags = dummy.e_ocflags]
                    /\ seen' = [Noted(rc, "ok") EXCEPT !.retryOn = rc]
                    /\ pc' = "retry"
                    /\ UNCHANGED dummy
    /\ UNCHANGED <<req, storeVars, ltid, lt2, e, fakeroot, applierVars, boi_err,
                   rs_err, num_retries, handles, ctrls>>
    /\ UNCHANGED lmVars

\* lines 552-575: commit of the outer transaction
TxnCommit ==
    /\ pc = "commit"
    /\ \E r \in Res("ok", {"fail"}) :
        /\ faults' = Spent(r, "ok")
        /\ IF r = "ok"
           THEN /\ store' = txStore
                /\ index' = txIndex
                /\ UNCHANGED <<txStore, txIndex>>
                /\ rs_err' = SUCCESS
                \* line 574: if( num_ctrls ) rs->sr_ctrls = ctrls
                /\ seen' = [seen EXCEPT !.committed = TRUE,
                                        !.sr_ctrls = ctrls.pre.set \/ ctrls.post.set,
                                        !.ends = @ + 1, !.o_private = "NULL"]
           ELSE /\ DropTxn
                /\ rs_err' = "LDAP_OTHER"
                /\ seen' = [Noted(r, "ok") EXCEPT !.ends = @ + 1, !.o_private = "NULL"]
    /\ ltid' = "NULL"
    /\ lt2' = "NULL"
    /\ pc' = "return_results"
    /\ log' = Append(log, "commit")
    /\ UNCHANGED <<req, obj, e, fakeroot, dummy, applierVars, boi_err, num_retries,
                   handles, ctrls>>
    /\ UNCHANGED lmVars

\* a retry block that backs off and starts the next attempt whatever it found
AfterAbort_NoPoll(r) == "begin"

\* lines 312-321: where the retry block goes after TXN_ABORT: out when the
\* abort failed or op->o_abandon is set, else on to the next attempt
AfterAbort(r) == IF r = "ok" THEN "begin" ELSE "return_results"

\* lines 308-322: what the retry block does after the clean-up, by the
\* result of TXN_ABORT and the abandon flag
RetrySteps(r) ==
    CASE r = "abort failed" -> <<"abort">>
      [] r = "abandon" -> <<"abort", "poll">>
      [] OTHER -> <<"abort", "poll", "yield", "backoff">>

\* lines 296-323: clean up, abort, poll the abandon flag, back off
Retry ==
    /\ pc = "retry"
    /\ obj' = IF dummy.e_attrs # "NULL" THEN FreeDummyAttrs(obj, dummy, e) ELSE obj
    /\ dummy' = [dummy EXCEPT !.e_attrs = "NULL", !.copy = <<>>]
    /\ handles' = IF e # "NULL" THEN CacheReturn(handles, e) ELSE handles
    /\ e' = "NULL"
    /\ ltid' = "NULL"
    /\ lt2' = "NULL"
    /\ DropTxn
    /\ \E r \in Res("ok", {"abort failed", "abandon"}) :
        /\ faults' = Spent(r, "ok")
        /\ seen' = [Noted(r, "ok") EXCEPT !.abandoned = (r = "abandon"),
                                           !.ends = @ + 1, !.o_private = "NULL",
                                           !.retrySteps = RetrySteps(r)]
        /\ pc' = AfterAbort(r)
        /\ CASE r = "ok" ->
                /\ rs_err' = SUCCESS
                /\ num_retries' = num_retries + 1
             [] r = "abort failed" ->
                /\ rs_err' = "LDAP_OTHER"
                /\ UNCHANGED num_retries
             [] r = "abandon" ->
                /\ rs_err' = "SLAPD_ABANDON"
                /\ UNCHANGED num_retries
    /\ UNCHANGED <<req, fakeroot, applierVars, boi_err, ctrls, log>>
    /\ UNCHANGED lmVars

\* lines 577-589: free what dummy still points at, send the result
ReturnResults ==
    /\ pc = "return_results"
    /\ obj' = IF dummy.e_attrs # "NULL" THEN FreeDummyAttrs(obj, dummy, e) ELSE obj
    /\ dummy' = [dummy EXCEPT !.copy = <<>>]
    /\ seen' = Replied(seen, rs_err)
    /\ pc' = "done"
    /\ UNCHANGED <<req, faults, storeVars, ltid, lt2, e, fakeroot, applierVars,
                   boi_err, rs_err, num_retries, handles, ctrls, log>>
    /\ UNCHANGED lmVars

\* a done block that calls TXN_ABORT( ltid ) without looking at ltid
AbortIfOpen_Always(sn, t) == [sn EXCEPT !.ends = @ + 1]

\* lines 592-594: if( ltid != NULL ) TXN_ABORT( ltid )
AbortIfOpen(sn, t) == IF t # "NULL" THEN [sn EXCEPT !.ends = @ + 1] ELSE sn

\* lines 591-609: abort what is open, hand e back to the cache, return
Done ==
    /\ pc = "done"
    /\ ltid' = "NULL"
    /\ lt2' = "NULL"
    /\ DropTxn
    /\ handles' = IF e # "NULL" THEN CacheReturn(handles, e) ELSE handles
    /\ seen' = [AbortIfOpen(seen, ltid) EXCEPT
                    !.o_private = "NULL",
                    !.uaf = @ \/ (e \in {"E", "S"} /\ obj[e].st = "freed")]
    /\ pc' = "returned"
    /\ UNCHANGED <<req, faults, obj, e, fakeroot, dummy, applierVars, boi_err,
                   rs_err, num_retries, ctrls, log>>
    /\ UNCHANGED lmVars

\* A use of freed memory need not go unnoticed: handing the freed entry to
\* the cache at line 598, or reading the attribute list of an entry whose
\* list was freed (lines 391, 419), can also end the process.
Crash ==
    /\ \/ pc = "done" /\ e = "S" /\ obj.S.st = "freed"
       \/ pc = "check" /\ e = "E" /\ ~obj.E.attrsLive
    /\ pc' = "crash"
    /\ seen' = [seen EXCEPT !.uaf = TRUE]
    /\ UNCHANGED <<req, faults, obj, storeVars, ltid, lt2, e, fakeroot, dummy,
                   applierVars, boi_err, rs_err, num_retries, handles, ctrls, log>>
    /\ UNCHANGED lmVars

(***************************************************************************)
(* do_modify's call of add_lastmods (servers/slapd/modify.c).              *)
(***************************************************************************)
\* strcasecmp compares without regard to case: the lower-case form
Lower(t) ==
    CASE t = "ModifiersName" -> "modifiersname"
      [] t = "createTimestamp" -> "createtimestamp"
      [] OTHER -> t

\* lines 212-215
IsLastmodType(t) ==
    Lower(t) \in {"modifytimestamp", "modifiersname", "createtimestamp", "creatorsname"}

\* attribute types a client may name
LmTypes == {"modifytimestamp", "ModifiersName", "createTimestamp", "creatorsname", "cn"}

ClientMod(t) ==
    [mod_op |-> "LDAP_MOD_REPLACE", mod_type |-> t, mod_values |-> <<"client">>,
     client |-> TRUE]

LastMod(t, v) ==
    [mod_op |-> "LDAP_MOD_REPLACE", mod_type |-> t, mod_values |-> <<v>>,
     client |-> FALSE]

ClientLists(n) == UNION {[1..k -> {ClientMod(t) : t \in LmTypes}] : k \in 0..n}

RemoveAt(s, i) == [k \in 1..(Len(s) - 1) |-> IF k < i THEN s[k] ELSE s[k + 1]]

\* gmtime and strftime "%Y%m%d%H%M%SZ" on a time within the first minute
\* of the epoch
Digits == <<"0", "1", "2", "3", "4", "5", "6", "7", "8", "9">>

Stamp(t) ==
    <<"1970", "01", "01", "00", "00",
      Digits[((t % 60) \div 10) + 1], Digits[(t % 10) + 1], "Z">>

\* the clock runs no further than this
MaxTime == 2

LmInit ==
    /\ lmPc = "call"
    /\ mods \in ClientLists(MaxLm)
    /\ mods0 = mods
    /\ m = 1
    /\ o_dn \in {"NULL", "", "cn=admin"}
    /\ shadow \in BOOLEAN
    /\ currenttime = 0
    /\ currenttime_mutex = "free"
    /\ buf = Stamp(0)

LmIdle ==
    /\ lmPc = "off"
    /\ mods = <<>>
    /\ mods0 = <<>>
    /\ m = 1
    /\ o_dn = "NULL"
    /\ shadow = FALSE
    /\ currenttime = 0
    /\ currenttime_mutex = "free"
    /\ buf = Stamp(0)

\* do_modify, lines 152-160: add_lastmods runs only for a master backend
LmCall ==
    /\ lmPc = "call"
    /\ lmPc' = IF shadow THEN "done" ELSE "strip"
    /\ m' = 1
    /\ UNCHANGED <<mods, o_dn, shadow, currenttime, currenttime_mutex, buf>>
    /\ UNCHANGED <<mods0, coordVars>>

\* lines 210-230: one pass of the loop that unlinks the client's lastmod
\* attributes; after an unlink the loop's increment still advances m
LmStrip ==
    /\ lmPc = "strip"
    /\ IF m > Len(mods)
       THEN /\ lmPc' = "name"
            /\ UNCHANGED <<mods, m>>
       ELSE IF IsLastmodType(mods[m].mod_type)
       THEN /\ mods' = RemoveAt(mods, m)
            /\ IF m > Len(mods) - 1
               THEN /\ lmPc' = "name"
                    /\ UNCHANGED m
               ELSE /\ m' = m + 1
                    /\ UNCHANGED lmPc
       ELSE /\ m' = m + 1
            /\ UNCHANGED <<mods, lmPc>>
    /\ UNCHANGED <<o_dn, shadow, currenttime, currenttime_mutex, buf>>
    /\ UNCHANGED <<mods0, coordVars>>

\* lines 232-246: modifiersname goes to the head of the list
LmModifiersName ==
    /\ lmPc = "name"
    /\ mods' = <<LastMod("modifiersname",
                         IF o_dn = "NULL" \/ o_dn = "" THEN "NULLDN" ELSE o_dn)>>
               \o mods
    /\ lmPc' = "lock"
    /\ UNCHANGED <<m, o_dn, shadow, currenttime, currenttime_mutex, buf>>
    /\ UNCHANGED <<mods0, coordVars>>

\* line 248
LmLock ==
    /\ lmPc = "lock"
    /\ currenttime_mutex = "free"
    /\ currenttime_mutex' = "lastmods"
    /\ lmPc' = "format"
    /\ UNCHANGED <<mods, m, o_dn, shadow, currenttime, buf>>
    /\ UNCHANGED <<mods0, coordVars>>

\* lines 250-251
LmFormat ==
    /\ lmPc = "format"
    /\ buf' = Stamp(currenttime)
    /\ lmPc' = "unlock"
    /\ UNCHANGED <<mods, m, o_dn, shadow, currenttime, currenttime_mutex>>
    /\ UNCHANGED <<mods0, coordVars>>

\* line 256
LmUnlock ==
    /\ lmPc = "unlock"
    /\ currenttime_mutex' = "free"
    /\ lmPc' = "stamp"
    /\ UNCHANGED <<mods, m, o_dn, shadow, currenttime, buf>>
    /\ UNCHANGED <<mods0, coordVars>>

\* lines 257-265: modifytimestamp goes to the head of the list
LmTimestamp ==
    /\ lmPc = "stamp"
    /\ mods' = <<LastMod("modifytimestamp", buf)>> \o mods
    /\ lmPc' = "done"
    /\ UNCHANGED <<m, o_dn, shadow, currenttime, currenttime_mutex, buf>>
    /\ UNCHANGED <<mods0, coordVars>>

\* the thread that keeps the process-wide clock advances it under the mutex
ClockTick ==
    /\ currenttime_mutex = "free"
    /\ currenttime < MaxTime
    /\ lmPc \notin {"off", "done"}
    /\ currenttime' = currenttime + 1
    /\ UNCHANGED <<lmPc, mods, m, o_dn, shadow, currenttime_mutex, buf>>
    /\ UNCHANGED <<mods0, coordVars>>

\* an inert coordinator, for the runs of add_lastmods alone
CoordIdle ==
    /\ pc = "off"
    /\ req = Request(<<>>, FALSE, FALSE, FALSE, FALSE, FALSE, "none", FALSE)
    /\ faults = 0
    /\ obj = [E |-> NoObj, S |-> NoObj]
    /\ store = [present |-> FALSE, attrs |-> <<>>]
    /\ index = {}
    /\ txStore = store
    /\ txIndex = index
    /\ ltid = "NULL"
    /\ lt2 = "NULL"
    /\ e = "NULL"
    /\ fakeroot = FALSE
    /\ dummy = NullDummy
    /\ save_attrs = FALSE
    /\ ml = 1
    /\ ap = 1
    /\ glue_attr_delete = FALSE
    /\ boi_err = "0"
    /\ rs_err = SUCCESS
    /\ num_retries = 0
    /\ handles = [out |-> 0, anc |-> 0, bad |-> 0]
    /\ ctrls = [pre |-> NoCtrl, post |-> NoCtrl]
    /\ log = <<>>
    /\ seen = NoSeen

Init == CoordInit /\ LmIdle

InitLm == CoordIdle /\ LmInit

NextLm ==
    \/ LmCall
    \/ LmStrip
    \/ LmModifiersName
    \/ LmLock
    \/ LmFormat
    \/ LmUnlock
    \/ LmTimestamp
    \/ ClockTick

Next ==
    \/ ModsOpattrs
    \/ TxnBegin
    \/ Resolve
    \/ Check
    \/ PreRead
    \/ TxnBegin2
    \/ AclCheck
    \/ DupAttrs
    \/ ApplyMod
    \/ SchemaCheck
    \/ IndexDelete
    \/ IndexAdd
    \/ Applied
    \/ EntryUpdate
    \/ TxnCommit2
    \/ PostRead
    \/ NoopAbort
    \/ CacheUpdate
    \/ TxnCommit
    \/ Retry
    \/ ReturnResults
    \/ Done
    \/ Crash

Spec == Init /\ [][Next]_vars

\* every step of modify is a step of the thread that runs the operation,
\* which is scheduled again and again until modify returns
SpecFair == Spec /\ WF_vars(Next)

\* add_lastmods on its own
SpecLm == InitLm /\ [][NextLm]_vars

(***************************************************************************)
(* What a run without abnormal collaborator results does with the request. *)
(***************************************************************************)
FromValues(vs) == [i \in 1..Len(vs) |-> Attr(vs[i][1], vs[i][2])]

IndexOfValues(vs) == IndexOf(FromValues(vs))

RECURSIVE ApplyList(_, _, _, _, _)
ApplyList(attrs, modlist, k, permissive, glue) ==
    IF k > Len(modlist) THEN [err |-> SUCCESS, attrs |-> attrs]
    ELSE LET r == ApplyOne(attrs, modlist[k], permissive, glue)
         IN  IF r.err # SUCCESS THEN r
             ELSE ApplyList(r.attrs, modlist, k + 1, permissive, glue)

\* the post-image the applier computes from the resolved pre-image
ExpectedPost ==
    LET pre == FromValues(seen.pre0)
        glue == GlueScan(req.mods)
    IN  ApplyList(IF glue THEN GluePurge(pre) ELSE pre, req.mods, 1,
                  req.permissive, glue)

\* the request passes the short-circuits of lines 390-442 and its
\* modifications apply
WouldSucceed ==
    /\ seen.pre0 # <<>>
    /\ req.manageDSAit
    /\ req.assert # "false"
    /\ ExpectedPost.err = SUCCESS
    /\ HasObjectClass(ExpectedPost.attrs)

Ended == pc \in {"returned", "crash"}

(***************************************************************************)
(* Properties.                                                             *)
(***************************************************************************)
\* C1: whenever bdb_modify_internal returns a code other than success, the
\* entry's attribute list is the saved pre-image list, with the attributes
\* and values it had when the entry was resolved, in the same order; the
\* working copy is gone; and the code returned is the code of the step that
\* failed.
C1_ErrorRestoresPreImage ==
    (pc = "applied" /\ rs_err # SUCCESS) =>
        /\ dummy.e_attrs = "pre"
        /\ dummy.copy = <<>>
        /\ Values(obj[e].e_attrs) = seen.pre0
        /\ rs_err = seen.stepErr

\* the second modification of the list fails after the first changed the copy
C1_Witness ==
    /\ pc = "applied"
    /\ rs_err = "LDAP_NO_SUCH_ATTRIBUTE"
    /\ save_attrs
    /\ ml = 2

\* C2: a no-op modify that ends with the no-operation code has committed
\* nothing, issued no index write, and leaves entry store, index store and
\* the cached entry as they were: the cache holds the pre-image list, live,
\* with its values.
C2_NoOpChangesNothing ==
    (pc = "returned" /\ req.o_noop /\ rs_err = "LDAP_X_NO_OPERATION") =>
        /\ ~seen.committed
        /\ store = seen.store0
        /\ index = seen.index0
        /\ "ixdel" \notin Range(log) /\ "ixadd" \notin Range(log)
        /\ obj.E.st = "live" =>
              obj.E.attrsLive /\ Values(obj.E.e_attrs) = seen.pre0

\* C3: after a successful modify of a stored entry that was committed, the
\* index holds for the entry exactly the values of the indexed attributes of
\* the stored post-image, named by the modification list or not.
C3_IndexIsPostImage ==
    (pc = "returned" /\ rs_err = SUCCESS /\ seen.committed /\ seen.store0.present) =>
        index = IndexOfValues(store.attrs)

\* C4: when add_lastmods is done, the list holds no modification of the
\* client whose type is modifytimestamp, modifiersname, createtimestamp or
\* creatorsname in any spelling of case.
C4_ClientLastmodsStripped ==
    (lmPc = "done" /\ ~shadow) =>
        \A i \in 1..Len(mods) : mods[i].client => ~IsLastmodType(mods[i].mod_type)

\* C5: a modify that would succeed and is not a no-op, in which exactly one
\* collaborator result was abnormal and that one a deadlock or
\* lock-not-granted, is retried exactly once and then commits the run's
\* post-image.
C5_OneLockConflictOneRetry ==
    (/\ pc = "returned"
     /\ ~req.o_noop
     /\ WouldSucceed
     /\ seen.lockOnly
     /\ faults = MaxFaults - 1) =>
        /\ num_retries = 1
        /\ rs_err = SUCCESS
        /\ seen.committed
        /\ store.attrs = Values(ExpectedPost.attrs)

\* C6: the cache gets back exactly the handles it gave out: nothing it did
\* not give out or that was freed is handed to it, at most one handle of the
\* target is out, none is out when a new attempt begins, and none is out
\* when modify has ended.
C6_HandlesReturnedOnce ==
    /\ handles.bad = 0
    /\ handles.out <= 1
    /\ pc = "begin" => handles.out = 0 /\ handles.anc = 0
    /\ Ended => handles.out = 0 /\ handles.anc = 0 /\ ~seen.uaf

StepOrder ==
    <<"acl", "apply", "schema", "ixdel", "ixadd", "update", "commit2", "postread",
      "cachemod", "commit">>

Rank(s) == CHOOSE i \in 1..Len(StepOrder) : StepOrder[i] = s

InOrder(l) == \A i, j \in 1..Len(l) : i < j => Rank(l[i]) < Rank(l[j])

Count(l, s) == Cardinality({i \in 1..Len(l) : l[i] = s})

CommittedAttempt == seen.committed /\ rs_err = SUCCESS /\ pc = "returned"

C8_PreImageUntouched ==
    (obj.E.st = "live" /\ seen.cacheMods = 0 /\ seen.pre0 # <<>> /\ ~fakeroot) =>
        /\ obj.E.attrsLive
        /\ Values(obj.E.e_attrs) = seen.pre0
        /\ obj.E.e_ocflags = seen.ocf0

\* C9: when modify has returned anything but success, the cached entry has
\* the values of the pre-image and agrees with the committed entry store.
C9_CacheFollowsCommit ==
    (pc = "returned" /\ rs_err # SUCCESS /\ obj.E.st = "live" /\ seen.pre0 # <<>>
        /\ ~fakeroot) =>
        /\ Values(obj.E.e_attrs) = seen.pre0
        /\ Values(obj.E.e_attrs) = store.attrs

\* C10: a modify of the synthesized root entry that committed never called
\* the cache update, freed the synthesized entry once, and neither used it
\* after that nor handed it to the cache.
C10_FakeRootFreedAndDropped ==
    (fakeroot /\ Ended /\ seen.committed) =>
        /\ seen.cacheMods = 0
        /\ seen.synthFrees = 1
        /\ ~seen.uaf
        /\ handles.bad = 0

\* C11: once op->o_abandon has been found set (which only the retry block
\* looks at, after the abort of the attempt's transaction), no attempt is
\* started, no transaction is open, no entry is held, the result is
\* SLAPD_ABANDON, nothing is committed and no reply goes out to the client.
C11_AbandonEndsQuietly ==
    /\ seen.abandoned =>
        /\ pc \in {"return_results", "done", "returned"}
        /\ rs_err = "SLAPD_ABANDON"
        /\ ltid = "NULL" /\ txStore = store /\ txIndex = index
        /\ e = "NULL"
        /\ seen.sent = 0
        /\ ~seen.committed
        /\ store = seen.store0 /\ index = seen.index0
    /\ rs_err = "SLAPD_ABANDON" => seen.abandoned

\* the operation has returned after the retry block found the flag set
C11_Witness ==
    /\ pc = "returned"
    /\ seen.abandoned
    /\ rs_err = "SLAPD_ABANDON"
    /\ seen.replies = 1
    /\ seen.sent = 0

\* the entry bdb_dn2entry found is a referral that is not glue
ReferralCase ==
    /\ seen.pre0 # <<>>
    /\ ~req.manageDSAit
    /\ HasClass(FromValues(seen.pre0), REFERRAL_OC)
    /\ ~HasClass(FromValues(seen.pre0), GLUE)

\* the entry is not answered with a referral and the assertion is not true
AssertCase ==
    /\ seen.pre0 # <<>>
    /\ req.manageDSAit \/ ( /\ ~HasClass(FromValues(seen.pre0), REFERRAL_OC)
                            /\ ~HasClass(FromValues(seen.pre0), GLUE) )
    /\ req.assert = "false"

C13_ReadControlsInReply ==
    (pc = "returned" /\ rs_err \in {SUCCESS, "LDAP_X_NO_OPERATION"}) =>
        /\ req.o_preread =>
              /\ seen.sr_ctrls
              /\ ctrls.pre.set
              /\ ctrls.pre.img = seen.pre0
        /\ req.o_postread =>
              /\ seen.sr_ctrls
              /\ ctrls.post.set
              /\ ctrls.post.img = Values(ExpectedPost.attrs)

\* the elements of t are elements of s, in the order they have in s
IsSubSeq(t, s) ==
    \E f \in [1..Len(t) -> 1..Len(s)] :
        /\ \A i \in 1..Len(t) : t[i] = s[f[i]]
        /\ \A i, j \in 1..Len(t) : i < j => f[i] < f[j]

CountType(l, t) == Cardinality({i \in 1..Len(l) : Lower(l[i].mod_type) = t})

\* C14: when add_lastmods is done for a backend that is not a shadow, the
\* list is one REPLACE of modifytimestamp with the formatted time, one
\* REPLACE of modifiersname with op->o_dn (NULLDN for a null or empty
\* o_dn), then modifications of the client in the order the client gave
\* them, and it names modifytimestamp and modifiersname once each; the time
\* is formatted from the clock while currenttime_mutex is held; for a shadow
\* the list is the client's.
C14_InjectedLastmods ==
    /\ lmPc = "unlock" => currenttime_mutex = "lastmods" /\ buf = Stamp(currenttime)
    /\ (lmPc = "done" /\ shadow) => mods = mods0
    /\ (lmPc = "done" /\ ~shadow) =>
        /\ Len(mods) >= 2
        /\ mods[1] = LastMod("modifytimestamp", buf)
        /\ mods[2] = LastMod("modifiersname",
                             IF o_dn \in {"NULL", ""} THEN "NULLDN" ELSE o_dn)
        /\ \A i \in 3..Len(mods) : mods[i].client
        /\ IsSubSeq(SubSeq(mods, 3, Len(mods)), mods0)
        /\ CountType(mods, "modifytimestamp") = 1
        /\ CountType(mods, "modifiersname") = 1

\* C15: whenever bdb_modify_internal returns a code other than success, no
\* attribute of the saved pre-image list carries SLAP_ATTR_IXDEL or
\* SLAP_ATTR_IXADD.
C15_FailureClearsFlags ==
    (pc = "applied" /\ rs_err # SUCCESS) =>
        \A i \in 1..Len(obj[e].e_attrs) : obj[e].e_attrs[i].a_flags = {}

\* C16: whenever the coordinator stands before TXN_BEGIN of the outer
\* transaction, on first entry or after a retry, its per-attempt state is
\* that of the first entry: no transaction is open, e is NULL and no handle
\* is out, dummy holds no attribute list, and fakeroot is 0.
C16_RetryStartsClean ==
    pc = "begin" =>
        /\ ltid = "NULL" /\ lt2 = "NULL"
        /\ txStore = store /\ txIndex = index
        /\ e = "NULL"
        /\ handles.out = 0 /\ handles.anc = 0
        /\ dummy.e_attrs = "NULL" /\ dummy.copy = <<>>
        /\ ~fakeroot

\* the request is one SLAP_MOD_SOFTADD of values the resolved entry has
SoftAddOfPresent ==
    /\ seen.pre0 # <<>>
    /\ Len(req.mods) = 1
    /\ req.mods[1].sm_op = "SLAP_MOD_SOFTADD"
    /\ \E i \in 1..Len(seen.pre0) :
          /\ seen.pre0[i][1] = req.mods[1].sm_desc
          /\ Range(req.mods[1].sm_values) \subseteq Range(seen.pre0[i][2])

\* C17: when bdb_modify_internal returns from a SLAP_MOD_SOFTADD of a value
\* the attribute already has, with no collaborator failing, it returns
\* success, the entry's attributes are those of the pre-image, and no index
\* delete and no index add was issued.
C17_SoftAddOfPresentValue ==
    (pc = "applied" /\ SoftAddOfPresent /\ faults = MaxFaults) =>
        /\ rs_err = SUCCESS
        /\ Values(DummyAttrs) = seen.pre0
        /\ "ixdel" \notin Range(log)
        /\ "ixadd" \notin Range(log)
        /\ txIndex = index

\* the list holds an ADD or REPLACE of structuralObjectClass with a value
\* other than "glue"
SetsRealStructuralClass ==
    \E i \in 1..Len(req.mods) :
        /\ req.mods[i].sm_op \in {"LDAP_MOD_ADD", "LDAP_MOD_REPLACE"}
        /\ req.mods[i].sm_desc = SOC
        /\ req.mods[i].sm_values[1] # GLUE

\* what the value routines make of the pre-image: for a list that sets a
\* real structural class, of its operational attributes under the list
\* without its DELETEs; for any other list, of all its attributes under the
\* whole list
PromotionPost ==
    LET pre == FromValues(seen.pre0)
    IN  IF SetsRealStructuralClass
        THEN ApplyList(SelectSeq(pre, LAMBDA a : IsOperational(a.a_desc)),
                       SelectSeq(req.mods, LAMBDA x : x.sm_op # "LDAP_MOD_DELETE"),
                       1, req.permissive, FALSE)
        ELSE ApplyList(pre, req.mods, 1, req.permissive, FALSE)

AllApplied == "apply" \in Range(log) /\ ml = Len(req.mods) + 1

IndexWritten == "ixdel" \in Range(log) \/ "ixadd" \in Range(log)

\* C19: in an attempt entry_schema_check is called at most once and before
\* every index write; when bdb_modify_internal returns it has been called
\* once if access was granted and every modification succeeded, no-op or
\* not, and not at all if access was denied or a modification failed; and
\* when it has failed no index write was issued.
C19_ValidatorOnceBeforeIndex ==
    /\ Count(log, "schema") <= 1
    /\ InOrder(log)
    /\ "schema" \in Range(log) => AllApplied
    /\ IndexWritten => "schema" \in Range(log)
    /\ pc = "applied" =>
        /\ AllApplied => Count(log, "schema") = 1
        /\ ~AllApplied => "schema" \notin Range(log) /\ ~IndexWritten
        /\ (log # <<>> /\ log[Len(log)] = "schema" /\ rs_err # SUCCESS) =>
              ~IndexWritten /\ txIndex = index

\* a no-op whose two modifications succeeded has been through the schema
\* check and is back in bdb_modify
C19_Witness ==
    /\ pc = "applied"
    /\ req.o_noop
    /\ Len(req.mods) = 2
    /\ log = <<"acl", "apply", "schema">>
    /\ rs_err = SUCCESS

ApplierSteps == {"acl", "apply", "schema", "ixdel", "ixadd"}

\* the attempt ended in bdb_modify_internal with a result that is not a lock
\* conflict, and bdb_modify has taken that result
ApplierFailed ==
    /\ pc \in {"return_results", "done", "returned"}
    /\ log # <<>> /\ log[Len(log)] \in ApplierSteps
    /\ seen.stepErr # SUCCESS
    /\ OverrideErr(seen.stepErr, boi_err) \notin LockErrs

\* modify has returned a result that is neither success nor abandon
EndedInError == pc = "returned" /\ rs_err \notin {SUCCESS, "SLAPD_ABANDON"}

\* C20: the operation goes to the retry block, and starts a further attempt,
\* only on DB_LOCK_DEADLOCK or DB_LOCK_NOTGRANTED; any other abnormal result
\* is final: no further attempt is started, a failure of the applier is
\* reported with the applier's own code, where LDAP_INSUFFICIENT_ACCESS gives
\* way to a code left in opinfo.boi_err, and when modify returns an error the
\* reply has been sent once, no transaction is open and nothing was committed.
C20_RetryOnlyOnLockErrors ==
    /\ pc = "retry" => seen.retryOn \in LockErrs
    /\ num_retries > 0 => seen.retryOn \in LockErrs
    /\ ~seen.lockOnly => pc \in {"applied", "return_results", "done", "returned", "crash"}
    /\ ApplierFailed => rs_err = OverrideErr(seen.stepErr, boi_err)
    /\ (pc = "applied" /\ seen.stepErr = "LDAP_INSUFFICIENT_ACCESS"
          /\ log[Len(log)] = "acl") => rs_err = "LDAP_INSUFFICIENT_ACCESS"
    /\ EndedInError =>
        /\ seen.replies = 1 /\ seen.sent = 1
        /\ ~seen.committed
        /\ ltid = "NULL" /\ lt2 = "NULL"
        /\ txStore = store /\ txIndex = index
        /\ store = seen.store0 /\ index = seen.index0

\* a first attempt ran into a lock conflict, the second was denied access
\* with nothing left in opinfo.boi_err, and modify has returned that
C20_Witness ==
    /\ pc = "returned"
    /\ num_retries = 1
    /\ seen.stepErr = "LDAP_INSUFFICIENT_ACCESS" /\ boi_err = "0"
    /\ log = <<"acl">>
    /\ rs_err = "LDAP_INSUFFICIENT_ACCESS"
    /\ seen.sent = 1

\* acl_check_modlist has denied access in this attempt and
\* bdb_modify_internal has returned
AccessDenied ==
    /\ pc = "applied"
    /\ log = <<"acl">>
    /\ seen.stepErr = "LDAP_INSUFFICIENT_ACCESS"

\* C21 as stated: when the access check on the modification list is made,
\* and when it has denied access, no pre-read control has been built and no
\* nested transaction has been begun in the attempt.
C21_AsStated ==
    (pc = "acl" \/ AccessDenied) => ~seen.preread /\ lt2 = "NULL"

\* C21: the access check on the modification list is made by the applier,
\* after the entry was resolved, after the pre-read control was built when
\* one was requested, and after the nested transaction was begun; when it
\* denies access the nested transaction is open, a requested pre-read
\* control holds the pre-image, no modification has been applied and nothing
\* was written; and an operation that ends on the denial leaves no
\* transaction open and attaches no control to the reply.
C21_AclInsideNestedTxn ==
    /\ (pc = "acl" \/ AccessDenied) =>
        /\ e \in {"E", "S"}
        /\ ltid = "open" /\ lt2 = "open"
        /\ seen.preread = req.o_preread
        /\ dummy.e_attrs = "pre"
        /\ txStore = store /\ txIndex = index
    /\ seen.preread => ctrls.pre = [set |-> TRUE, img |-> seen.pre0]
    /\ (pc = "returned" /\ log = <<"acl">>) =>
        /\ ltid = "NULL" /\ lt2 = "NULL"
        /\ ~seen.sr_ctrls /\ ~seen.committed
        /\ store = seen.store0 /\ index = seen.index0

\* access to a stored entry was denied after the requested pre-read control
\* was built and the nested transaction begun
C21_Witness ==
    /\ AccessDenied
    /\ rs_err = "LDAP_INSUFFICIENT_ACCESS"
    /\ req.o_preread /\ seen.preread
    /\ lt2 = "open"
    /\ e = "E"

\* the outer transaction is open exactly when one more was begun than ended,
\* none was ended twice, and the nested one is open only inside an open
\* outer one
OuterEndedOnce ==
    /\ seen.ends <= seen.begun
    /\ seen.begun - seen.ends = (IF ltid = "open" THEN 1 ELSE 0)
    /\ seen.begun <= num_retries + 1
    /\ lt2 = "open" => ltid = "open"
    /\ ltid = "open" => seen.o_private = "opinfo"

\* when modify has returned, every transaction it began has been ended and
\* op->o_private is NULL
ClosedAtReturn ==
    pc = "returned" =>
        /\ ltid = "NULL" /\ lt2 = "NULL"
        /\ seen.ends = seen.begun
        /\ seen.o_private = "NULL"
        /\ txStore = store /\ txIndex = index

\* TXN_COMMIT of the outer transaction was called in this attempt
CommitCalled == "commit" \in Range(log)

\* the steps that come before the outer commit on every path
BeforeCommit ==
    /\ ~req.o_noop
    /\ InOrder(log)
    /\ log[Len(log)] = "commit" /\ Count(log, "commit") = 1
    /\ \A st \in {"acl", "apply", "schema", "update", "commit2"} : Count(log, st) = 1
    /\ seen.committed => rs_err = SUCCESS

\* C22 as stated: every outer transaction begun is ended once before modify
\* returns, none is ended twice, nothing is open and op->o_private is NULL
\* at the return, and the outer commit is called only in an attempt that is
\* not a no-op, after the applier, the entry update, the inner commit and
\* the cache update.
C22_AsStated ==
    /\ OuterEndedOnce
    /\ ClosedAtReturn
    /\ CommitCalled => BeforeCommit /\ Count(log, "cachemod") = 1

\* C22: as above, where the step before the outer commit is the cache
\* update for a cached entry and the freeing of the entry, without any
\* cache update, for the synthesized root entry.
C22_OuterTxnEndedOnce ==
    /\ OuterEndedOnce
    /\ ClosedAtReturn
    /\ CommitCalled =>
        /\ BeforeCommit
        /\ Count(log, "cachemod") = (IF fakeroot THEN 0 ELSE 1)
        /\ fakeroot => seen.synthFrees >= 1 /\ obj.S.st = "freed"

\* modify has returned after a retry and a commit: two outer transactions
\* were begun, the first aborted in the retry block, the second committed
C22_Witness ==
    /\ pc = "returned"
    /\ seen.committed
    /\ ~fakeroot
    /\ seen.begun = 2 /\ seen.ends = 2
    /\ num_retries = 1

\* a pass through the retry block that goes on to a new attempt has aborted,
\* polled the abandon flag, yielded and backed off, in that order, and has
\* added one to num_retries; slap_mods_opattrs is called once per operation
RetryDiscipline ==
    /\ num_retries > 0 =>
          \/ seen.retrySteps = <<"abort", "poll", "yield", "backoff">>
          \/ pc \in {"return_results", "done", "returned"}
    /\ pc = "begin" => num_retries = seen.begun
    /\ (seen.begun > 0 /\ pc # "retry") => num_retries \in {seen.begun - 1, seen.begun}
    /\ seen.opattrs = (IF pc = "opattrs" THEN 0 ELSE 1)

====
